---------------------------- MODULE Spec2Model ----------------------------
(***************************************************************************)
(* A model of oemof's core/energy_system.py: the EnergySystem container    *)
(* (registry, connect, optimize, dump, restore), Region and Simulation,    *)
(* together with what tests/constraint_tests.py shows of the optimization  *)
(* model that optimize delegates to.                                       *)
(*                                                                         *)
(* Python values are modelled as follows.  Objects live in heaps (the      *)
(* sequences heap, lists, containers, regs) and are referred to by their   *)
(* index, so that two names of one list object are one index.  Numbers,    *)
(* None and float('inf') that are only stored and compared are strings     *)
(* ("777", "None", "inf").  An entity uid is a record [kind, val]: kind is *)
(* "str" or "tuple", val the string (as a 1-tuple) or the tuple's items.   *)
(***************************************************************************)
EXTENDS Integers, Sequences, FiniteSets, TLC

----------------------------------------------------------------------------
(* Bounds of the model *)

MaxContainers == 2
MaxBuses == 2
MaxEntities == 4
MaxLists == 3
MaxSteps == 2
MaxRegions == 2
MaxRegionEntities == 2
MaxNameLen == 5
MaxComponents == 2

----------------------------------------------------------------------------
(* Helpers *)

Range(s) == {s[i] : i \in 1..Len(s)}

\* the position of the first occurrence of x in s (x occurs in s)
IndexOf(s, x) == CHOOSE i \in 1..Len(s) : s[i] = x /\ \A j \in 1..(i-1) : s[j] # x

\* Python: a + b on two tuples
TupleConcat(a, b) == a \o b

----------------------------------------------------------------------------
(* Input sets *)

\* uids of buses: flat strings as in the tests, and tuples
BusUids ==
  { [kind |-> "str",   val |-> <<"bel">>],
    [kind |-> "tuple", val |-> <<"a">>],
    [kind |-> "tuple", val |-> <<"b">>] }

\* transport_class arguments of connect; "Simple" is transport.Simple
TransportClasses == {"Simple", "Other"}

InMaxArgs == {"10"}
OutMaxArgs == {"8"}
EtaArgs == {"0.9"}

\* A value that may be None: None itself, or a sequence (a list, a range,
\* a string as its characters)
NoneValue == [isNone |-> TRUE, seq |-> <<>>]
Some(s) == [isNone |-> FALSE, seq |-> s]

\* range(n)
RangeSeq(n) == [i \in 1..n |-> i - 1]

\* containers' simulation attribute: [] by default, or a Simulation object
EmptyList ==
  [isSim |-> FALSE, solver |-> "", debug |-> FALSE, verbose |-> FALSE,
   objective_options |-> "", duals |-> FALSE, timesteps |-> NoneValue,
   relaxed |-> FALSE, fast_build |-> FALSE, solve_kwargs |-> ""]

\* Simulation.__init__'s assignments: the object it builds from its keyword
\* arguments (kw holds kwargs.get's value for every key, the default for
\* an absent one)
SimulationObject(kw) ==
  [isSim |-> TRUE, solver |-> kw.solver, debug |-> kw.debug,
   verbose |-> kw.verbose, objective_options |-> kw.objective_options,
   duals |-> kw.duals, timesteps |-> kw.timesteps, relaxed |-> kw.relaxed,
   fast_build |-> kw.fast_build, solve_kwargs |-> kw.solve_kwargs]

\* the tests' Simulation(timesteps=range(...), solver='glpk',
\* objective_options={'function': minimize_cost})
SimGlpk ==
  SimulationObject(
    [solver |-> "glpk", debug |-> FALSE, verbose |-> FALSE,
     objective_options |-> "minimize_cost", duals |-> FALSE,
     timesteps |-> Some(RangeSeq(2)), relaxed |-> FALSE,
     fast_build |-> FALSE, solve_kwargs |-> "{}"])

\* keyword arguments of EnergySystem(...) other than entities; an absent
\* keyword is the default that kwargs.get returns
DefaultKwargs ==
  [simulation |-> EmptyList, regions |-> <<>>, results |-> "None",
   time_idx |-> "None"]

EsKwargs ==
  { DefaultKwargs,
    [simulation |-> SimGlpk, regions |-> <<"north">>, results |-> "r1",
     time_idx |-> "idx"] }

FileNames == {"es_dump.oemof"}
DefaultFileName == "es_dump.oemof"

----------------------------------------------------------------------------
VARIABLES
  heap,        \* the Entity objects, by identity
  lists,       \* the list objects that hold entities, by identity
  containers,  \* the EnergySystem objects: their __dict__
  registry,    \* Entity.registry: 0 is None, else a container
  files,       \* the dump directory: file name -> pickled blob
  last,        \* the last call: what was called, with what, how it ended
  activeAt,    \* history: Entity.registry when each entity was constructed
  given,       \* history: which containers got an entities argument
  dumped,      \* history: file name -> what the container held at dump
  sim,         \* the last Simulation(...) call: arguments, outcome, object
  regs,        \* the Region objects
  investment,  \* optimization_options['investment'] of each entity class
  builds       \* the optimization models built so far (last two)

vars == <<heap, lists, containers, registry, files, last, activeAt, given,
          dumped, sim, regs, investment, builds>>

regVars == <<heap, lists, containers, registry, files, last, activeAt,
             given, dumped>>

----------------------------------------------------------------------------
(* Entity objects *)

Bus(uid) ==
  [cls |-> "Bus", uid |-> uid, inputs |-> <<>>, outputs |-> <<>>,
   in_max |-> <<>>, out_max |-> <<>>, eta |-> <<>>, regions |-> <<>>]

NoCall ==
  [op |-> "none", es |-> 0, raised |-> "none", created |-> <<>>,
   cls |-> "", bus1 |-> 0, bus2 |-> 0, in_max |-> "", out_max |-> "",
   eta |-> "", file |-> "", om |-> "", solved |-> FALSE]

\* The entities in container c's list
EntitiesOf(c) == lists[containers[c].entities]

\* Entity.__init__'s registration: the new entity (the next heap index) is
\* appended to the entities list of the active registry, if there is one
Register(ls, id) ==
  IF registry = 0 THEN ls
  ELSE [ls EXCEPT ![containers[registry].entities] = Append(@, id)]

\* transport_class(uid=uid, outputs=[bus_a], inputs=[bus_b],
\*                 out_max=[out_max], in_max=[in_max], eta=[eta])
Transport(uid, bus_a, bus_b, in_max, out_max, eta) ==
  [cls |-> "transport.Simple", uid |-> uid, inputs |-> <<bus_b>>,
   outputs |-> <<bus_a>>, in_max |-> <<in_max>>, out_max |-> <<out_max>>,
   eta |-> <<eta>>, regions |-> <<>>]

\* the entities constructed by the program (not copies made by pickle.load)
ConstructedAll == {i \in 1..Len(heap) : activeAt[i] >= 0}

Constructed(cls) == {i \in ConstructedAll : heap[i].cls = cls}

----------------------------------------------------------------------------
(* EnergySystem.__init__ *)

\* The entities keyword: absent (kwargs.get returns a new []), a new list
\* of the entities that exist, or the list object another container holds
EntitiesArgs ==
  {[kind |-> "absent", ref |-> 0, items |-> <<>>],
   [kind |-> "literal", ref |-> 0, items |-> [e \in 1..Len(heap) |-> e]]}
  \cup {[kind |-> "object", ref |-> containers[c].entities, items |-> <<>>] :
          c \in 1..Len(containers)}

\* a constructor that leaves the registry alone once one is set
RegistryKeptIfSet(self) == IF registry = 0 THEN self ELSE registry

\* Entity.registry = self
RegistryAfterInit(self) == self

NewEnergySystem(ents, kw) ==
  /\ Len(containers) < MaxContainers
  /\ ents.kind # "object" => Len(lists) < MaxLists
  /\ LET self == Len(containers) + 1
         list == IF ents.kind = "object" THEN ents.ref ELSE Len(lists) + 1
     IN /\ lists' = IF ents.kind = "object" THEN lists
                    ELSE Append(lists, ents.items)
        /\ containers' = Append(containers,
             [entities |-> list, simulation |-> kw.simulation,
              regions |-> kw.regions, results |-> kw.results,
              time_idx |-> kw.time_idx])
        /\ registry' = RegistryAfterInit(self)
        /\ given' = Append(given, ents.kind # "absent")
        /\ last' = [NoCall EXCEPT !.op = "EnergySystem", !.es = self]
  /\ UNCHANGED <<heap, files, activeAt, dumped, regs>>

----------------------------------------------------------------------------
(* Entity construction: Bus(uid=...) *)

NewBus(uid) ==
  /\ Cardinality(Constructed("Bus")) < MaxBuses
  /\ heap' = Append(heap, Bus(uid))
  /\ lists' = Register(lists, Len(heap) + 1)
  /\ activeAt' = Append(activeAt, registry)
  /\ last' = [NoCall EXCEPT !.op = "Bus", !.created = <<Len(heap) + 1>>]
  /\ UNCHANGED <<containers, registry, files, given, dumped, regs>>

----------------------------------------------------------------------------
(* EnergySystem.connect *)

\* uid = ('transport',) + bus_a.uid + bus_b.uid
TransportUid(bus_a, bus_b) ==
  [kind |-> "tuple",
   val |-> TupleConcat(TupleConcat(<<"transport">>, heap[bus_a].uid.val),
                       heap[bus_b].uid.val)]

\* tuple + str raises TypeError
UidRaises(bus_a, bus_b) ==
  heap[bus_a].uid.kind # "tuple" \/ heap[bus_b].uid.kind # "tuple"

\* a connect that does not check the transport class
ConnectRaisesUidOnly(bus1, bus2, transport_class) ==
  IF UidRaises(bus1, bus2) THEN "TypeError" ELSE "none"

\* what connect raises, "none" when it returns
ConnectRaises(bus1, bus2, transport_class) ==
  IF transport_class # "Simple" THEN "TypeError"
  ELSE IF UidRaises(bus1, bus2) THEN "TypeError"
  ELSE "none"

Connect(self, bus1, bus2, in_max, out_max, eta, transport_class) ==
  /\ Cardinality(ConstructedAll) + 2 <= MaxEntities
  /\ LET raised == ConnectRaises(bus1, bus2, transport_class)
         t1 == Transport(TransportUid(bus1, bus2), bus1, bus2,
                         in_max, out_max, eta)
         t2 == Transport(TransportUid(bus2, bus1), bus2, bus1,
                         in_max, out_max, eta)
         id1 == Len(heap) + 1
         id2 == Len(heap) + 2
         call == [NoCall EXCEPT !.op = "connect", !.es = self,
                    !.cls = transport_class, !.bus1 = bus1, !.bus2 = bus2,
                    !.in_max = in_max, !.out_max = out_max, !.eta = eta]
     IN IF raised # "none"
        THEN /\ last' = [call EXCEPT !.raised = raised]
             /\ UNCHANGED <<heap, lists, activeAt>>
        ELSE /\ heap' = heap \o <<t1, t2>>
             /\ lists' = IF registry = 0 THEN lists
                         ELSE [lists EXCEPT ![containers[registry].entities]
                                              = @ \o <<id1, id2>>]
             /\ activeAt' = activeAt \o <<registry, registry>>
             /\ last' = [call EXCEPT !.created = <<id1, id2>>]
  /\ UNCHANGED <<containers, registry, files, given, dumped, regs>>

----------------------------------------------------------------------------
(* EnergySystem.dump and EnergySystem.restore: pickle of self.__dict__ *)

NoFile ==
  [exists |-> FALSE, objs |-> <<>>, entities |-> <<>>,
   simulation |-> EmptyList, regions |-> <<>>, results |-> "None",
   time_idx |-> "None"]

\* pickle's traversal: an object is written once, on its first visit (the
\* memo), and then the objects its attributes refer to
RECURSIVE VisitAll(_, _, _)
VisitAll(h, memo, ids) ==
  IF ids = <<>> THEN memo
  ELSE LET id == Head(ids)
           seen == IF id \in Range(memo) THEN memo
                   ELSE VisitAll(h, Append(memo, id),
                                 h[id].inputs \o h[id].outputs)
       IN VisitAll(h, seen, Tail(ids))

\* pickle.dump(self.__dict__, file): the objects reachable from the entity
\* list, each written once and referred to by its memo position, and the
\* other attributes by value
MemoRefs(memo, ids) == [i \in 1..Len(ids) |-> IndexOf(memo, ids[i])]

Pickle(self) ==
  LET memo == VisitAll(heap, <<>>, EntitiesOf(self))
  IN [exists |-> TRUE,
      objs |-> [i \in 1..Len(memo) |->
                  [heap[memo[i]] EXCEPT !.inputs = MemoRefs(memo, @),
                                        !.outputs = MemoRefs(memo, @)]],
      entities |-> MemoRefs(memo, EntitiesOf(self)),
      simulation |-> containers[self].simulation,
      regions |-> containers[self].regions,
      results |-> containers[self].results,
      time_idx |-> containers[self].time_idx]

\* pickle.load(file): the objects of the blob as new objects after the
\* `base` objects that exist
NewObjs(base, refs) == [i \in 1..Len(refs) |-> base + refs[i]]

UnpickleObjs(blob, base) ==
  [i \in 1..Len(blob.objs) |->
     [blob.objs[i] EXCEPT !.inputs = NewObjs(base, @),
                          !.outputs = NewObjs(base, @)]]

UnpickleList(blob, base) == NewObjs(base, blob.entities)

\* a restore that updates the attributes the file has results for only
UnpickleDictKeepNone(blob, list) ==
  [entities |-> list, simulation |-> blob.simulation,
   regions |-> blob.regions, results |-> "None",
   time_idx |-> blob.time_idx]

\* self.__dict__ = pickle.load(...): the attributes of the restored container
UnpickleDict(blob, list) ==
  [entities |-> list, simulation |-> blob.simulation,
   regions |-> blob.regions, results |-> blob.results,
   time_idx |-> blob.time_idx]

\* What a caller observes of an entity: its attributes, and the uids of the
\* entities it is linked to
UidsOf(ids) == [i \in 1..Len(ids) |-> heap[ids[i]].uid]

EntityValue(id) ==
  [cls |-> heap[id].cls, uid |-> heap[id].uid,
   in_max |-> heap[id].in_max, out_max |-> heap[id].out_max,
   eta |-> heap[id].eta, inputs |-> UidsOf(heap[id].inputs),
   outputs |-> UidsOf(heap[id].outputs)]

\* What a caller observes of a container: the entity list (the entities'
\* values and which positions hold one and the same object), the simulation
\* config, the regions, the results and the time index
View(c) ==
  LET l == EntitiesOf(c)
  IN [entities |-> [i \in 1..Len(l) |-> EntityValue(l[i])],
      same |-> {p \in (1..Len(l)) \X (1..Len(l)) : l[p[1]] = l[p[2]]},
      simulation |-> containers[c].simulation,
      regions |-> containers[c].regions,
      results |-> containers[c].results,
      time_idx |-> containers[c].time_idx]

NoView ==
  [entities |-> <<>>, same |-> {}, simulation |-> EmptyList,
   regions |-> <<>>, results |-> "None", time_idx |-> "None"]

Dump(self, filename) ==
  /\ files' = [files EXCEPT ![filename] = Pickle(self)]
  /\ dumped' = [dumped EXCEPT ![filename] = [view |-> View(self),
                                              by |-> self]]
  /\ last' = [NoCall EXCEPT !.op = "dump", !.es = self, !.file = filename]
  /\ UNCHANGED <<heap, lists, containers, registry, activeAt, given, regs>>

Restore(self, filename) ==
  LET blob == files[filename]
      call == [NoCall EXCEPT !.op = "restore", !.es = self,
                             !.file = filename]
  IN IF ~blob.exists
     THEN \* open(...) raises
          /\ last' = [call EXCEPT !.raised = "FileNotFoundError"]
          /\ UNCHANGED <<heap, lists, containers, registry, files,
                         activeAt, given, dumped, regs>>
     ELSE /\ Len(lists) < MaxLists
          /\ heap' = heap \o UnpickleObjs(blob, Len(heap))
          /\ lists' = Append(lists, UnpickleList(blob, Len(heap)))
          /\ containers' = [containers EXCEPT
                              ![self] = UnpickleDict(blob, Len(lists) + 1)]
          /\ activeAt' = activeAt \o [i \in 1..Len(blob.objs) |-> -1]
          /\ last' = [call EXCEPT
                        !.created = [i \in 1..Len(blob.objs) |->
                                       Len(heap) + i]]
          /\ UNCHANGED <<registry, files, given, dumped, regs>>

----------------------------------------------------------------------------
(* Simulation.__init__ *)

\* the keyword arguments of Simulation(...): kwargs.get's value for each
\* key; an absent timesteps (or timesteps=None) is None
SimulationKwargs ==
  [solver : {"glpk", "cbc"}, debug : BOOLEAN, verbose : BOOLEAN,
   objective_options : {"{}", "minimize_cost"}, duals : BOOLEAN,
   timesteps : {NoneValue} \cup {Some(RangeSeq(n)) : n \in 0..MaxSteps},
   relaxed : BOOLEAN, fast_build : BOOLEAN, solve_kwargs : {"{}"}]

\* a constructor that checks nothing
SimulationNeverRaises(timesteps) == "none"

\* if self.timesteps is None: raise ValueError('No timesteps defined!')
SimulationRaises(timesteps) ==
  IF timesteps.isNone THEN "ValueError" ELSE "none"

NoSimCall ==
  [op |-> "none", kw |-> CHOOSE kw \in SimulationKwargs : kw.timesteps.isNone,
   raised |-> "none", obj |-> EmptyList]

\* sim.obj is the object the call returned; a call that raised returned none
NewSimulation(kw) ==
  /\ LET raised == SimulationRaises(kw.timesteps)
     IN sim' = [op |-> "Simulation", kw |-> kw, raised |-> raised,
                obj |-> IF raised = "none" THEN SimulationObject(kw)
                        ELSE EmptyList]
  /\ UNCHANGED <<heap, lists, containers, registry, files, last, activeAt,
                 given, dumped, regs, investment, builds>>

InitSim ==
  /\ heap = <<>> /\ lists = <<>> /\ containers = <<>> /\ registry = 0
  /\ files = [f \in FileNames |-> NoFile]
  /\ last = NoCall /\ activeAt = <<>> /\ given = <<>>
  /\ dumped = [f \in FileNames |-> [view |-> NoView, by |-> 0]]
  /\ sim = NoSimCall /\ regs = <<>> /\ investment = 0 /\ builds = <<>>

NextSim == \E kw \in SimulationKwargs : NewSimulation(kw)

SpecSim == InitSim /\ [][NextSim]_vars

\* C6 (as claimed): every Simulation that construction returns holds a
\* non-empty timestep sequence; construction with the timesteps absent or
\* empty raises instead of returning.
C6_TimestepsNonEmpty ==
  sim.op = "Simulation" =>
    /\ sim.raised = "none" =>
         (~sim.obj.timesteps.isNone /\ sim.obj.timesteps.seq # <<>>)
    /\ (sim.kw.timesteps.isNone \/ sim.kw.timesteps.seq = <<>>) =>
         (sim.raised = "ValueError" /\ ~sim.obj.isSim)

\* C6 (amended): every Simulation that construction returns holds a
\* timestep sequence that is not None, the one it was given; construction
\* with the timesteps absent (None) raises ValueError instead of returning;
\* an empty sequence is accepted.
C6_TimestepsNotNone ==
  sim.op = "Simulation" =>
    /\ sim.raised = "none" =>
         (sim.obj.isSim /\ ~sim.obj.timesteps.isNone
            /\ sim.obj.timesteps = sim.kw.timesteps)
    /\ sim.kw.timesteps.isNone =>
         (sim.raised = "ValueError" /\ ~sim.obj.isSim)
    /\ (sim.kw.timesteps = Some(<<>>)) => sim.raised = "none"

C6_Witness ==
  /\ sim.op = "Simulation"
  /\ sim.kw.timesteps.isNone
  /\ sim.raised = "ValueError"

----------------------------------------------------------------------------
(* The container, its registry, connect, dump and restore *)

InitReg ==
  /\ heap = <<>>
  /\ lists = <<>>
  /\ containers = <<>>
  /\ registry = 0
  /\ files = [f \in FileNames |-> NoFile]
  /\ last = NoCall
  /\ activeAt = <<>>
  /\ given = <<>>
  /\ dumped = [f \in FileNames |-> [view |-> NoView, by |-> 0]]

Buses == {i \in 1..Len(heap) : heap[i].cls = "Bus"}

\* uids are unique: a new bus gets a uid no constructed entity has
UsedUids == {heap[i].uid : i \in ConstructedAll}

otherVars == <<sim, investment, builds>>

InitRest ==
  sim = NoSimCall /\ regs = <<>> /\ investment = 0 /\ builds = <<>>

Init == InitReg /\ InitRest

\* container and entity constructions only
ConstructEnergySystem ==
  /\ \E ents \in EntitiesArgs : NewEnergySystem(ents, DefaultKwargs)
  /\ UNCHANGED otherVars

ConstructBus ==
  /\ \E uid \in BusUids \ UsedUids : NewBus(uid)
  /\ UNCHANGED otherVars

CallConnect ==
  /\ \E self \in 1..Len(containers), bus1 \in Buses, bus2 \in Buses,
        in_max \in InMaxArgs, out_max \in OutMaxArgs, eta \in EtaArgs,
        transport_class \in TransportClasses :
       Connect(self, bus1, bus2, in_max, out_max, eta, transport_class)
  /\ UNCHANGED otherVars

NextReg == ConstructEnergySystem \/ ConstructBus \/ CallConnect

SpecReg == Init /\ [][NextReg]_vars

\* constructions that succeed, dump and restore
TupleUids == {u \in BusUids : u.kind = "tuple" /\ Len(u.val) = 1}

FreshEnergySystem ==
  /\ \E kw \in EsKwargs :
       NewEnergySystem([kind |-> "absent", ref |-> 0, items |-> <<>>], kw)
  /\ UNCHANGED otherVars

TupleBus ==
  /\ \E uid \in TupleUids \ UsedUids : NewBus(uid)
  /\ UNCHANGED otherVars

ConnectSimple ==
  /\ registry # 0
  /\ \E bus1 \in Buses : \E bus2 \in Buses \ {bus1} :
       Connect(registry, bus1, bus2, "10", "8", "0.9", "Simple")
  /\ UNCHANGED otherVars

CallDump ==
  /\ \E self \in 1..Len(containers), filename \in FileNames :
       Dump(self, filename)
  /\ UNCHANGED otherVars

CallRestore ==
  /\ \E self \in 1..Len(containers), filename \in FileNames :
       Restore(self, filename)
  /\ UNCHANGED otherVars

Next ==
  FreshEnergySystem \/ TupleBus \/ ConnectSimple \/ CallDump \/ CallRestore

Spec == Init /\ [][Next]_vars

----------------------------------------------------------------------------
(* Region *)

\* characters of region names; str.upper turns "a" into "A"
Alphabet == {"a", "B", " ", "_"}

Strings(n) == UNION {[1..k -> Alphabet] : k \in 0..n}

\* s[a:b]
Slice(s, a, b) ==
  LET hi == IF b < Len(s) THEN b ELSE Len(s)
  IN IF a >= hi THEN <<>> ELSE SubSeq(s, a + 1, hi)

\* str.upper, a character at a time
Upper(s) ==
  [i \in 1..Len(s) |-> CASE s[i] = "a" -> "A" [] s[i] = "b" -> "B"
                         [] OTHER -> s[i]]

\* name.replace('_', ' ')
Replace(s) == [i \in 1..Len(s) |-> IF s[i] = "_" THEN " " ELSE s[i]]

\* str.split(' '): at every space
RECURSIVE SplitAll(_)
SplitAll(s) ==
  IF \A i \in 1..Len(s) : s[i] # " " THEN <<s>>
  ELSE LET i == CHOOSE k \in 1..Len(s) :
                  s[k] = " " /\ \A j \in 1..(k - 1) : s[j] # " "
       IN <<SubSeq(s, 1, i - 1)>> \o SplitAll(SubSeq(s, i + 1, Len(s)))

\* str.split(' ', 1): at the first space only
Split1(s) ==
  IF \A i \in 1..Len(s) : s[i] # " " THEN <<s>>
  ELSE LET i == CHOOSE k \in 1..Len(s) :
                  s[k] = " " /\ \A j \in 1..(k - 1) : s[j] # " "
       IN <<SubSeq(s, 1, i - 1), SubSeq(s, i + 1, Len(s))>>

\* a code property that splits the name at every space
NamePartsAll(name) == SplitAll(Replace(name))

\* name_parts = self.name.replace('_', ' ').split(' ', 1)
NameParts(name) == Split1(Replace(name))

\* part[:1].upper() + part[1:3]
PartCode(part) == Upper(Slice(part, 0, 1)) \o Slice(part, 1, 3)

\* for part in name_parts: self._code += part[:1].upper() + part[1:3]
RECURSIVE CodeOfParts(_)
CodeOfParts(parts) ==
  IF parts = <<>> THEN <<>>
  ELSE PartCode(Head(parts)) \o CodeOfParts(Tail(parts))

\* an add_entities that sets the region on entities that have none yet
BackRefIfNone(h, self, e) ==
  IF h[e].regions # <<>> THEN h
  ELSE [h EXCEPT ![e].regions = Append(@, self)]

\* if self not in entity.regions: entity.regions.append(self)
BackRef(h, self, e) ==
  IF self \in Range(h[e].regions) THEN h
  ELSE [h EXCEPT ![e].regions = Append(@, self)]

\* for entity in entities: ...
RECURSIVE BackRefs(_, _, _)
BackRefs(h, self, entities) ==
  IF entities = <<>> THEN h
  ELSE BackRefs(BackRef(h, self, Head(entities)), self, Tail(entities))

\* Region.__init__: entities = [] extended by the entities keyword; codeArg
\* records the code keyword the region was constructed with
NewRegion(entities, name, code) ==
  /\ Len(regs) < MaxRegions
  /\ Len(entities) <= MaxRegionEntities
  /\ regs' = Append(regs, [entities |-> <<>> \o entities, name |-> name,
                           _code |-> code, codeArg |-> code])
  /\ heap' = BackRefs(heap, Len(regs) + 1, entities)
  /\ last' = [NoCall EXCEPT !.op = "Region", !.es = Len(regs) + 1]
  /\ UNCHANGED <<lists, containers, registry, files, activeAt, given, dumped,
                 sim, investment, builds>>

AddEntities(self, entities) ==
  /\ Len(regs[self].entities) + Len(entities) <= MaxRegionEntities
  /\ regs' = [regs EXCEPT ![self].entities = @ \o entities]
  /\ heap' = BackRefs(heap, self, entities)
  /\ last' = [NoCall EXCEPT !.op = "add_entities", !.es = self]
  /\ UNCHANGED <<lists, containers, registry, files, activeAt, given, dumped,
                 sim, investment, builds>>

\* the code property; None.replace raises AttributeError
GetCode(self) ==
  LET r == regs[self]
      call == [NoCall EXCEPT !.op = "code", !.es = self]
  IN /\ IF ~r._code.isNone
        THEN regs' = regs /\ last' = call
        ELSE IF r.name.isNone
        THEN regs' = regs /\ last' = [call EXCEPT !.raised = "AttributeError"]
        ELSE /\ regs' = [regs EXCEPT ![self]._code =
                           Some(CodeOfParts(NameParts(r.name.seq)))]
             /\ last' = call
     /\ UNCHANGED <<heap, lists, containers, registry, files, activeAt, given,
                    dumped, sim, investment, builds>>

\* sequences of at most n of the entities that exist, repeats included
EntitySeqs(n) == UNION {[1..k -> 1..Len(heap)] : k \in 0..n}

RegionNames == {NoneValue, Some(<<"a", "B">>)}

ConstructRegion ==
  \E entities \in EntitySeqs(MaxRegionEntities), name \in RegionNames :
    NewRegion(entities, name, NoneValue)

CallAddEntities ==
  \E self \in 1..Len(regs), entities \in EntitySeqs(MaxRegionEntities) :
    AddEntities(self, entities)

NextRegion == TupleBus \/ ConstructRegion \/ CallAddEntities

SpecRegion == Init /\ [][NextRegion]_vars

\* the state after Region(name=..., code=...) with a name of at most
\* MaxNameLen characters
InitCode ==
  /\ InitReg /\ sim = NoSimCall /\ investment = 0 /\ builds = <<>>
  /\ \E name \in {NoneValue} \cup {Some(n) : n \in Strings(MaxNameLen)},
        code \in {NoneValue, Some(<<"X">>)} :
       regs = <<[entities |-> <<>>, name |-> name, _code |-> code,
                 codeArg |-> code]>>

NextCode == \E self \in 1..Len(regs) : GetCode(self)

SpecCode == InitCode /\ [][NextCode]_vars

----------------------------------------------------------------------------
(* Claims about Region *)

\* the whitespace-delimited segments of a string: its maximal runs of
\* characters that are not spaces
RECURSIVE Segments(_)
Segments(s) ==
  IF s = <<>> THEN <<>>
  ELSE IF Head(s) = " " THEN Segments(Tail(s))
  ELSE LET n == CHOOSE k \in 1..Len(s) :
                  /\ \A j \in 1..k : s[j] # " "
                  /\ (k = Len(s) \/ s[k + 1] = " ")
       IN <<SubSeq(s, 1, n)>> \o Segments(SubSeq(s, n + 1, Len(s)))

\* the regions whose code was derived from their name
Derived == {r \in 1..Len(regs) : regs[r].codeArg.isNone /\ ~regs[r]._code.isNone}

\* names made of words with one space between them
SingleSpaced(n) ==
  /\ n # <<>> /\ n[1] # " " /\ n[Len(n)] # " "
  /\ \A i \in 1..Len(n) : n[i] # "_"
  /\ \A i \in 1..(Len(n) - 1) : ~(n[i] = " " /\ n[i + 1] = " ")

\* C9 (as claimed): the code of a region constructed without a code is
\* the concatenation, over every whitespace-delimited segment of the name,
\* of the segment's first up-to-three characters, the first upper-cased
\* (stated here for names of words with one space between them).
C9_CodeOfEverySegment ==
  \A r \in Derived :
    SingleSpaced(regs[r].name.seq) =>
      regs[r]._code.seq = CodeOfParts(Segments(regs[r].name.seq))

\* the characters of s at positions from..to (1-based) that exist
Chars(s, from, to) ==
  [i \in 1..(IF to < Len(s) THEN to - from + 1 ELSE Len(s) - from + 1) |->
     s[from + i - 1]]

\* C9 (amended): the code of a region constructed with a name and without
\* a code is built from at most two parts, split at the first space or
\* underscore of the name only: the first up-to-three characters of the
\* name before that separator, and the first up-to-three characters of all
\* that follows it, each part's first character upper-cased.  Later
\* separators do not start a new part.
C9_CodeOfTwoParts ==
  \A r \in Derived :
    LET n == regs[r].name.seq
        sep(i) == n[i] = " " \/ n[i] = "_"
        seps == {i \in 1..Len(n) : sep(i)}
        k == IF seps = {} THEN Len(n) + 1
             ELSE CHOOSE i \in seps : \A j \in seps : i <= j
        blank(c) == IF c = "_" THEN " " ELSE c
        cap(p) == [i \in 1..Len(p) |->
                     IF i = 1 THEN (IF p[1] = "a" THEN "A" ELSE blank(p[1]))
                     ELSE blank(p[i])]
        first == Chars(n, 1, IF k - 1 < 3 THEN k - 1 ELSE 3)
        second == Chars(n, k + 1, k + 3)
    IN /\ ~regs[r].name.isNone
       /\ regs[r]._code.seq = cap(first) \o cap(second)
       /\ Len(regs[r]._code.seq) <= 6
       /\ (SingleSpaced(n) /\ Len(Segments(n)) <= 2) =>
            regs[r]._code.seq = CodeOfParts(Segments(n))

C9_Witness ==
  \E r \in Derived :
    /\ Len(Segments(regs[r].name.seq)) >= 3
    /\ Len(regs[r]._code.seq) >= 3

\* C10: every entity in a region's entities list has that region in its
\* own regions list.
C10_Bidirectional ==
  \A r \in 1..Len(regs) :
    \A i \in 1..Len(regs[r].entities) :
      r \in Range(heap[regs[r].entities[i]].regions)

C10_Witness ==
  /\ Len(regs) = 2
  /\ last.op = "add_entities"
  /\ \E e \in 1..Len(heap) :
       /\ regs[1].entities = <<e, e>>
       /\ e \in Range(regs[2].entities)
       /\ heap[e].regions = <<1, 2>>

----------------------------------------------------------------------------
(* The optimization model: what optimize calls and the tests build *)

Classes == {"transformer.Simple", "source.FixedSource",
            "transformer.PostHeating"}

\* The tests' components, on three buses that are entities 1, 2 and 3
TestBuses ==
  << Bus([kind |-> "str", val |-> <<"bus_test">>]),
     Bus([kind |-> "str", val |-> <<"bus_stor_heat">>]),
     Bus([kind |-> "str", val |-> <<"bus_distr_heat">>]) >>

InMaxValues == {<<"777", "888">>, <<"None", "inf">>}

Component(cls, in_max) ==
  CASE cls = "transformer.Simple" ->
         [cls |-> cls, uid |-> [kind |-> "str", val |-> <<"pp_gas">>],
          inputs |-> <<1>>, outputs |-> <<3>>, in_max |-> <<>>,
          out_max |-> <<"10e10">>, eta |-> <<"0.58">>, regions |-> <<>>]
    [] cls = "source.FixedSource" ->
         [cls |-> cls, uid |-> [kind |-> "str", val |-> <<"wind">>],
          inputs |-> <<>>, outputs |-> <<3>>, in_max |-> <<>>,
          out_max |-> <<"1000000">>, eta |-> <<>>, regions |-> <<>>]
    [] cls = "transformer.PostHeating" ->
         [cls |-> cls, uid |-> [kind |-> "str", val |-> <<"postheat_elec">>],
          inputs |-> <<1, 2>>, outputs |-> <<3>>, in_max |-> in_max,
          out_max |-> <<"999993">>, eta |-> <<"0.95", "1">>,
          regions |-> <<>>]

\* the orders in which at most MaxComponents components of different
\* classes are constructed
ComponentOrders ==
  {o \in UNION {[1..k -> Classes] : k \in 0..MaxComponents} :
     \A i, j \in 1..Len(o) : i # j => o[i] # o[j]}

Finite(bound) == bound \notin {"None", "inf"}

\* a validation that rejects an unbounded in_max under investment
BuildRaisesOnUnbounded(ents, flags) ==
  IF \E i \in 1..Len(ents) :
       /\ heap[ents[i]].cls = "transformer.PostHeating"
       /\ flags[heap[ents[i]].cls]
       /\ \E k \in 1..Len(heap[ents[i]].in_max) :
            ~Finite(heap[ents[i]].in_max[k])
  THEN "ValueError" ELSE "none"

\* OptimizationModel(energysystem=...) as the tests observe it: with the
\* PostHeating class's investment flag set, in_max = [777, 888] raises
\* ValueError and in_max = [None, inf] is accepted; with the flag cleared,
\* in_max = [777, 888] is accepted
BuildRaises(ents, flags) ==
  IF \E i \in 1..Len(ents) :
       /\ heap[ents[i]].cls = "transformer.PostHeating"
       /\ flags[heap[ents[i]].cls]
       /\ \E k \in 1..Len(heap[ents[i]].in_max) :
            Finite(heap[ents[i]].in_max[k])
  THEN "ValueError" ELSE "none"

\* a flag that one class's update sets for every class
InvestsAny(flags, id) ==
  heap[id].cls \in Classes /\ \E c \in Classes : flags[c]

\* whether the entity's class has its investment flag set
Invests(flags, id) == heap[id].cls \in Classes /\ flags[heap[id].cls]

\* the links of an entity that carry a capacity: a finite in_max or out_max
CapacityLinks(id) ==
  {[side |-> "in", link |-> k] :
     k \in {k \in 1..Len(heap[id].in_max) : Finite(heap[id].in_max[k])}}
  \cup {[side |-> "out", link |-> k] :
     k \in {k \in 1..Len(heap[id].out_max) : Finite(heap[id].out_max[k])}}

Links(id) ==
  {[side |-> "in", link |-> k] : k \in 1..Len(heap[id].inputs)}
  \cup {[side |-> "out", link |-> k] : k \in 1..Len(heap[id].outputs)}

\* one flow variable per link and timestep; t = -1 marks a capacity
\* variable, which has no timestep
FlowVars(id, timesteps) ==
  {[e |-> id, side |-> l.side, link |-> l.link, t |-> t] :
     l \in Links(id), t \in Range(timesteps)}

CapacityVars(id) ==
  {[e |-> id, side |-> l.side, link |-> l.link, t |-> -1] :
     l \in CapacityLinks(id)}

Variables(ents, flags, timesteps) ==
  UNION {FlowVars(id, timesteps)
           \cup (IF Invests(flags, id) THEN CapacityVars(id) ELSE {}) :
         id \in Range(ents)}

\* per entity and timestep: the bus balance, the conversion or the source
\* constraint, and the bound of each capacity-bearing link, by a constant
\* or by the capacity variable
EntityConstraints(id, flags, timesteps) ==
  {[e |-> id, kind |-> heap[id].cls, side |-> "", link |-> 0, t |-> t] :
     t \in Range(timesteps)}
  \cup {[e |-> id,
         kind |-> IF Invests(flags, id) THEN "bound by capacity"
                  ELSE "bound by constant",
         side |-> l.side, link |-> l.link, t |-> t] :
          l \in CapacityLinks(id), t \in Range(timesteps)}

Constraints(ents, flags, timesteps) ==
  UNION {EntityConstraints(id, flags, timesteps) : id \in Range(ents)}

\* an optimize that clears the old results before it builds and solves
OptimizeResultsCleared(results, raised, new) ==
  IF raised = "none" THEN new ELSE "None"

\* self.results = om.results(), reached only if nothing raised before it
OptimizeResults(results, raised, new) ==
  IF raised = "none" THEN new ELSE results

\* optimize(om): om is "None" (a model is built here) or "given"; failure
\* is the solver's outcome, new the results mapping of a solved model
Optimize(self, om, failure, new) ==
  LET built == IF om = "None"
               THEN BuildRaises(EntitiesOf(self), investment) ELSE "none"
      raised == IF built # "none" THEN built ELSE failure
  IN /\ containers' = [containers EXCEPT ![self].results =
                         OptimizeResults(@, raised, new)]
     /\ last' = [NoCall EXCEPT !.op = "optimize", !.es = self, !.om = om,
                               !.raised = raised,
                               !.solved = (built = "none")]
     /\ UNCHANGED <<heap, lists, registry, files, activeAt, given, dumped,
                    sim, regs, investment, builds>>

\* om.OptimizationModel(energysystem=...) and write_lp_file: the last two
\* models built are kept
BuildModel(self) ==
  LET ents == EntitiesOf(self)
      timesteps == containers[self].simulation.timesteps.seq
      raised == BuildRaises(ents, investment)
      model == [raised |-> raised, flags |-> investment,
                vars |-> IF raised = "none"
                         THEN Variables(ents, investment, timesteps) ELSE {},
                cons |-> IF raised = "none"
                         THEN Constraints(ents, investment, timesteps)
                         ELSE {}]
  IN /\ builds' = IF builds = <<>> THEN <<model>>
                  ELSE <<builds[Len(builds)], model>>
     /\ last' = [NoCall EXCEPT !.op = "OptimizationModel", !.es = self,
                               !.raised = raised]
     /\ UNCHANGED <<heap, lists, containers, registry, files, activeAt,
                    given, dumped, sim, regs, investment>>

\* cls.optimization_options.update({'investment': value})
SetInvestment(cls, value) ==
  /\ investment' = [investment EXCEPT ![cls] = value]
  /\ last' = [NoCall EXCEPT !.op = "update", !.cls = cls]
  /\ UNCHANGED <<heap, lists, containers, registry, files, activeAt, given,
                 dumped, sim, regs, builds>>

\* postheat.in_max = [...]
SetInMax(id, in_max) ==
  /\ heap[id].cls = "transformer.PostHeating"
  /\ heap' = [heap EXCEPT ![id].in_max = in_max]
  /\ last' = [NoCall EXCEPT !.op = "in_max", !.created = <<id>>]
  /\ UNCHANGED <<lists, containers, registry, files, activeAt, given,
                 dumped, sim, regs, investment, builds>>

\* The state after setUpClass and the construction of a graph: the buses
\* and then the components, all registered in the one container
InitOpt ==
  /\ \E o \in ComponentOrders, in_max \in InMaxValues :
       /\ heap = TestBuses \o [i \in 1..Len(o) |-> Component(o[i], in_max)]
       /\ lists = <<[i \in 1..(3 + Len(o)) |-> i]>>
       /\ activeAt = [i \in 1..(3 + Len(o)) |-> 1]
  /\ containers = <<[entities |-> 1, simulation |-> SimGlpk,
                     regions |-> <<>>, results |-> "None",
                     time_idx |-> "idx"]>>
  /\ registry = 1
  /\ given = <<FALSE>>
  /\ files = [f \in FileNames |-> NoFile]
  /\ dumped = [f \in FileNames |-> [view |-> NoView, by |-> 0]]
  /\ last = NoCall
  /\ sim = NoSimCall /\ regs = <<>> /\ builds = <<>>
  /\ investment = [c \in Classes |-> c = "transformer.PostHeating"]

CallOptimize ==
  \E self \in 1..Len(containers), om \in {"None", "given"},
     failure \in {"none", "SolverError"}, new \in {"r1", "r2"} :
    Optimize(self, om, failure, new)

CallBuildModel == \E self \in 1..Len(containers) : BuildModel(self)

UpdateInvestment ==
  \E cls \in Classes, value \in BOOLEAN : SetInvestment(cls, value)

AssignInMax ==
  \E id \in 1..Len(heap), in_max \in InMaxValues : SetInMax(id, in_max)

NextOpt == CallOptimize \/ UpdateInvestment \/ AssignInMax

SpecOpt == InitOpt /\ [][NextOpt]_vars

NextBuild == CallBuildModel \/ UpdateInvestment

SpecBuild == InitOpt /\ [][NextBuild]_vars

----------------------------------------------------------------------------
(* Claims about optimize and the optimization model *)

\* C1: an optimize call that fails, in the build or in the solve, leaves
\* the results of the container (of every container) as they were.
C1_FailedOptimizeKeepsResults ==
  [][(last'.op = "optimize" /\ last'.raised # "none") =>
       \A c \in 1..Len(containers) :
         containers'[c].results = containers[c].results]_vars

C1_Witness ==
  /\ last.op = "optimize"
  /\ last.raised = "SolverError"
  /\ containers[last.es].results = "r1"

PostHeatings(c) ==
  {id \in Range(EntitiesOf(c)) :
     heap[id].cls = "transformer.PostHeating" /\ Len(heap[id].inputs) = 2}

Unbounded(id) ==
  \E k \in 1..Len(heap[id].in_max) : ~Finite(heap[id].in_max[k])

ToggledOnly(c) ==
  /\ Len(builds) = 2
  /\ builds[1].raised = "none" /\ builds[2].raised = "none"
  /\ builds[1].flags[c] # builds[2].flags[c]
  /\ \A d \in Classes \ {c} : builds[1].flags[d] = builds[2].flags[d]

\* C8: when two models are built of one graph and only class c's
\* investment flag differs between them, the build with the flag set has
\* one capacity variable for every capacity-bearing link of the entities
\* of class c and the other build has none, and the variables and the
\* constraints of the entities of every other class are the same in both.
C8_ToggleChangesOnlyThatClass ==
  \A c \in Classes :
    ToggledOnly(c) =>
      LET on == IF builds[1].flags[c] THEN builds[1] ELSE builds[2]
          off == IF builds[1].flags[c] THEN builds[2] ELSE builds[1]
          ofClass == {id \in 1..Len(heap) : heap[id].cls = c}
          caps(m) == {v \in m.vars : v.t = -1 /\ heap[v.e].cls = c}
          others(set) == {x \in set : heap[x.e].cls # c}
      IN /\ caps(on) = UNION {CapacityVars(id) : id \in ofClass}
         /\ caps(off) = {}
         /\ on.vars \ caps(on) = off.vars
         /\ others(on.vars) = others(off.vars)
         /\ others(on.cons) = others(off.cons)

C8_Witness ==
  \E c \in Classes :
    /\ ToggledOnly(c)
    /\ builds[2].flags[c]
    /\ builds[2].vars # builds[1].vars
    /\ \E v \in builds[2].vars : heap[v.e].cls \in Classes \ {c}
    /\ \E d \in Classes \ {c} : builds[2].flags[d]

----------------------------------------------------------------------------
(* Claims about the container *)

Transports == {i \in 1..Len(heap) : heap[i].cls = "transport.Simple"}

\* C2 (as claimed): connect with the supported simple transport class
\* creates exactly two Transport entities, one per direction, each with
\* in_max = [inMax], out_max = [outMax], eta = [eta], whose identifiers are
\* derived from both bus identifiers, differ and mirror each other; nothing
\* else is created.
C2_ConnectCreatesTwoTransports ==
  (last.op = "connect" /\ last.cls = "Simple") =>
    /\ last.raised = "none"
    /\ Len(last.created) = 2
    /\ Transports = Range(last.created)
    /\ LET t1 == heap[last.created[1]]
           t2 == heap[last.created[2]]
           u1 == heap[last.bus1].uid.val
           u2 == heap[last.bus2].uid.val
       IN /\ \A t \in {t1, t2} :
                /\ t.cls = "transport.Simple"
                /\ t.in_max = <<last.in_max>>
                /\ t.out_max = <<last.out_max>>
                /\ t.eta = <<last.eta>>
          /\ {<<t1.inputs, t1.outputs>>, <<t2.inputs, t2.outputs>>}
               = {<<<<last.bus1>>, <<last.bus2>>>>,
                  <<<<last.bus2>>, <<last.bus1>>>>}
          /\ t1.uid.val = <<"transport">> \o u1 \o u2
          /\ t2.uid.val = <<"transport">> \o u2 \o u1
          /\ t1.uid # t2.uid

\* C3: connect with a transport class other than the supported one raises
\* TypeError and creates nothing: no entity object is made and every
\* container's entity list, the active one's included, stays as it was.
C3_UnsupportedClassRaises ==
  [][(last'.op = "connect" /\ last'.cls # "Simple") =>
       /\ last'.raised = "TypeError"
       /\ last'.created = <<>>
       /\ heap' = heap
       /\ lists' = lists]_vars

C3_Witness ==
  /\ last.op = "connect" /\ last.cls # "Simple"
  /\ last.raised = "TypeError"
  /\ registry # 0
  /\ Len(EntitiesOf(registry)) = 2

InList(e, c) == e \in Range(EntitiesOf(c))

\* C4 (as claimed): the active registry is the most recently constructed
\* container, and every entity is in the entity list of the container that
\* was active when it was constructed and in no other container's list.
C4_AttachedToActiveOnly ==
  /\ registry = Len(containers)
  /\ \A e \in 1..Len(heap), c \in 1..Len(containers) :
       InList(e, c) <=> (c = activeAt[e])

\* C4 (amended): the active registry is the most recently constructed
\* container; every entity constructed while a container was active is in
\* that container's entity list; and it is in another container's list
\* only if one of the two containers was constructed with an entities
\* argument (a list holding the entity, or the list object of the other).
C4_AttachedToActive ==
  /\ registry = Len(containers)
  /\ \A e \in 1..Len(heap) :
       /\ activeAt[e] # 0 => InList(e, activeAt[e])
       /\ \A c \in 1..Len(containers) :
            (InList(e, c) /\ c # activeAt[e]) =>
              (given[c] \/ (activeAt[e] # 0 /\ given[activeAt[e]]))

C4_Witness ==
  /\ Len(containers) = 2 /\ registry = 2
  /\ ~given[1] /\ ~given[2]
  /\ \E e1, e2 \in 1..Len(heap) :
       /\ activeAt[e1] = 1 /\ InList(e1, 1) /\ ~InList(e1, 2)
       /\ activeAt[e2] = 2 /\ InList(e2, 2) /\ ~InList(e2, 1)

\* C5: after restore of a dumped file into a container, the container's
\* entity list, simulation config, regions, results and time index are
\* those the dumping container had when it was dumped, whatever the
\* restoring container held before; its entities are new objects in a new
\* list.
C5_DumpRestoreRoundTrip ==
  (last.op = "restore" /\ last.raised = "none") =>
    /\ View(last.es) = dumped[last.file].view
    /\ Range(EntitiesOf(last.es)) \subseteq Range(last.created)
    /\ \A c \in 1..Len(containers) :
         c # last.es => containers[c].entities # containers[last.es].entities

C5_Witness ==
  /\ last.op = "restore" /\ last.raised = "none"
  /\ last.es > dumped[last.file].by
  /\ View(last.es).results = "r1"
  /\ View(dumped[last.file].by) = View(last.es)
  /\ EntitiesOf(dumped[last.file].by) # EntitiesOf(last.es)
  /\ \E i \in 1..Len(EntitiesOf(last.es)) :
       LET t == heap[EntitiesOf(last.es)[i]]
       IN t.cls = "transport.Simple" /\ t.inputs # t.outputs

============================================================================
